---- MODULE Spec2Model ----
(***************************************************************************)
(* A model of kakeibo's server.py: the CSV normaliser (read_csv), the      *)
(* ledger loader (load_all_csvs), the month resolver                       *)
(* (parse_month_from_text) and the summarisation engine (summarize_df).    *)
(*                                                                         *)
(* Text is a sequence of one-character strings.  The three Japanese        *)
(* characters the month resolver looks for are written KON, SEN and GATSU  *)
(* (the characters of "this month", "last month" and the month marker).    *)
(* Column names are written with the English names of the data model.      *)
(***************************************************************************)
EXTENDS Integers, Sequences, FiniteSets, TLC

VARIABLES
    text,       \* slash command: the free text being typed
    resolved,   \* slash command: what parse_month_from_text returned
    dir,        \* the CSV files of KAKEIBO_DIR: a function from file names to files
    listing,    \* loader: the names list_csv_files returned
    cursor,     \* loader: how many files of the listing the loop has visited
    frames,     \* loader: the frames read so far
    loaded,     \* loader: the table load_all_csvs returned
    file,       \* the CSV file a /read_csv or /summarize request names
    preview,    \* read_csv: the table read_csv returned
    month,      \* summarize: the month the request names
    summary,    \* summarize: what summarize_df returned
    phase       \* where the current request stands

vars == <<text, resolved, dir, listing, cursor, frames, loaded, file, preview, month, summary, phase>>

\* ------------------------------------------------------------------ bounds

\* How many tokens a slash-command text holds at most.
MaxTokens == 4
\* How many rows the file of a /summarize request holds at most.
MaxRows == 2
\* How many files the directory holds at most.
MaxFiles == 2
\* How many rows a file of the directory or of a /read_csv request holds at most.
MaxLines == 1
\* How many columns the header of the file of a /read_csv request holds at most.
MaxHeader == 3

\* ------------------------------------------------------------------ text

\* Python's None.
None == <<"<None>">>

Digits == {"0", "1", "2", "3", "4", "5", "6", "7", "8", "9"}
DigitChars == <<"0", "1", "2", "3", "4", "5", "6", "7", "8", "9">>

\* The character at position i of t, or the empty string past its ends.
At(t, i) == IF i \in 1..Len(t) THEN t[i] ELSE ""

\* Python's `sub in t`.
Contains(t, sub) ==
    \E i \in 1..(Len(t) - Len(sub) + 1) : SubSeq(t, i, i + Len(sub) - 1) = sub

\* Python's int() of a run of decimal digits.
RECURSIVE int(_)
int(ds) ==
    IF ds = <<>> THEN 0
    ELSE 10 * int(SubSeq(ds, 1, Len(ds) - 1))
         + (CHOOSE d \in 0..9 : DigitChars[d + 1] = ds[Len(ds)])

\* The decimal digits of n >= 0, most significant first.
RECURSIVE str(_)
str(n) == IF n < 10 THEN <<DigitChars[n + 1]>>
          ELSE str(n \div 10) \o <<DigitChars[(n % 10) + 1]>>

\* Python's format spec 0<w>d: zero-padded to at least w digits.
RECURSIVE zfill(_, _)
zfill(ds, w) == IF Len(ds) >= w THEN ds ELSE zfill(<<"0">> \o ds, w)

\* f"{y:04d}-{mm:02d}", also what strftime("%Y-%m") gives for year y, month mm.
FormatYearMonth(y, mm) == zfill(str(y), 4) \o <<"-">> \o zfill(str(mm), 2)

\* Python's str.strip() for the one white-space character of the alphabet.
RECURSIVE strip(_)
strip(t) ==
    IF t = <<>> THEN t
    ELSE IF t[1] = " " THEN strip(Tail(t))
    ELSE IF t[Len(t)] = " " THEN strip(SubSeq(t, 1, Len(t) - 1))
    ELSE t

\* MONTH_RE: ^\d{4}-(0[1-9]|1[0-2])$
MONTH_RE(s) ==
    /\ Len(s) = 7
    /\ \A i \in 1..4 : s[i] \in Digits
    /\ s[5] = "-"
    /\ \/ s[6] = "0" /\ s[7] \in Digits \ {"0"}
       \/ s[6] = "1" /\ s[7] \in {"0", "1", "2"}

\* ------------------------------------------------- parse_month_from_text

\* The ways the group (0?[1-9]|1[0-2]) matches at position p, in the order the
\* regex engine tries them: "0" then a non-zero digit, a non-zero digit alone,
\* then "1" and one of 0, 1, 2.  Each is <<the digits matched, the next position>>.
MonthGroup(t, p) ==
    (IF At(t, p) = "0" /\ At(t, p + 1) \in Digits \ {"0"}
        THEN << <<SubSeq(t, p, p + 1), p + 2>> >> ELSE <<>>)
    \o (IF At(t, p) \in Digits \ {"0"}
        THEN << <<SubSeq(t, p, p), p + 1>> >> ELSE <<>>)
    \o (IF At(t, p) = "1" /\ At(t, p + 1) \in {"0", "1", "2"}
        THEN << <<SubSeq(t, p, p + 1), p + 2>> >> ELSE <<>>)

FourDigits(t, i) == \A k \in i..(i + 3) : At(t, k) \in Digits

\* (\d{4})[-/]?(0?[1-9]|1[0-2])(?:GATSU)? anchored at i: the groups <<year, month>>
\* of the match the engine finds first, or <<>>.  The separator is tried present
\* before absent; the optional month marker never makes a branch fail.
YearMonthAt(t, i) ==
    IF ~FourDigits(t, i) THEN <<>>
    ELSE LET withSep == IF At(t, i + 4) \in {"-", "/"} THEN MonthGroup(t, i + 5) ELSE <<>>
             ways    == withSep \o MonthGroup(t, i + 4)
         IN  IF ways = <<>> THEN <<>> ELSE <<SubSeq(t, i, i + 3), ways[1][1]>>

\* (0?[1-9]|1[0-2])GATSU anchored at i: the month group of the first branch
\* that is followed by the month marker, or <<>>.
BareMonthAt(t, i) ==
    LET ways == SelectSeq(MonthGroup(t, i), LAMBDA w : At(t, w[2]) = "GATSU")
    IN  IF ways = <<>> THEN <<>> ELSE <<ways[1][1]>>

\* (\d{4})-(\d{2}) anchored at i.
DashedAt(t, i) ==
    IF FourDigits(t, i) /\ At(t, i + 4) = "-"
       /\ At(t, i + 5) \in Digits /\ At(t, i + 6) \in Digits
    THEN <<SubSeq(t, i, i + 3), SubSeq(t, i + 5, i + 6)>>
    ELSE <<>>

\* re.search tries the positions from the left: the first of `hits`.
Leftmost(hits) == CHOOSE i \in hits : \A j \in hits : i <= j

searchYearMonth(t) ==
    LET hits == {i \in 1..Len(t) : YearMonthAt(t, i) # <<>>}
    IN  IF hits = {} THEN <<>> ELSE YearMonthAt(t, Leftmost(hits))

searchBareMonth(t) ==
    LET hits == {i \in 1..Len(t) : BareMonthAt(t, i) # <<>>}
    IN  IF hits = {} THEN <<>> ELSE BareMonthAt(t, Leftmost(hits))

searchDashed(t) ==
    LET hits == {i \in 1..Len(t) : DashedAt(t, i) # <<>>}
    IN  IF hits = {} THEN <<>> ELSE DashedAt(t, Leftmost(hits))

\* The month before the month of `now` (first day of the month minus one day).
prev_last(now) ==
    IF now.month = 1 THEN [year |-> now.year - 1, month |-> 12]
    ELSE [year |-> now.year, month |-> now.month - 1]

parse_month_from_text(txt, now) ==
    IF txt = <<>> THEN None
    ELSE LET t  == strip(txt)
             m  == searchYearMonth(t)
             m2 == searchBareMonth(t)
             m3 == searchDashed(t)
         IN  IF Contains(t, <<"KON", "GATSU">>)
                 THEN FormatYearMonth(now.year, now.month)
             ELSE IF Contains(t, <<"SEN", "GATSU">>)
                 THEN FormatYearMonth(prev_last(now).year, prev_last(now).month)
             ELSE IF m # <<>>
                 THEN FormatYearMonth(int(m[1]), int(m[2]))
             ELSE IF m2 # <<>>
                 THEN LET mm == int(m2[1])
                          y  == IF mm > now.month THEN now.year - 1 ELSE now.year
                      IN  FormatYearMonth(y, mm)
             ELSE IF m3 # <<>>
                 THEN FormatYearMonth(int(m3[1]), int(m3[2]))
             ELSE None

\* What a user types at a time: a year, a digit, a separator, one of the three
\* Japanese characters, a letter or a blank.
Tokens ==
    { <<"2", "0", "2", "3">>, <<"0">>, <<"1">>, <<"2">>, <<"-">>, <<"/">>,
      <<"GATSU">>, <<"KON">>, <<"SEN">>, <<"x">>, <<" ">> }

\* datetime.now(JST), to the month: the reference of the spec's scenarios and a
\* January, where "last month" rolls the year over.
Nows == { [year |-> 2024, month |-> 3], [year |-> 2024, month |-> 1] }

\* The characters of a sequence of tokens.
RECURSIVE Flatten(_)
Flatten(toks) == IF toks = <<>> THEN <<>> ELSE toks[1] \o Flatten(Tail(toks))

\* ------------------------------------------------------------- data frames

\* A DataFrame is [columns: a sequence of column names, rows: a sequence of
\* rows], a row being a function from the column names to cells.  A CSV file
\* is [encoding, header, rows], its rows functions from the header's names.

Range(s) == {s[i] : i \in 1..Len(s)}

\* pandas' missing cell.
NaN == "<NaN>"

CSV_COLUMNS ==
    << "included_in_calc", "date", "description", "amount", "institution",
       "major_category", "minor_category", "memo", "is_transfer", "id" >>

\* pd.DataFrame(columns=cols): no rows.
EmptyFrame(cols) == [columns |-> cols, rows |-> <<>>]

\* df[cols]: the columns `cols`, in that order, of every row.
Select(df, cols) ==
    [columns |-> cols,
     rows    |-> [i \in 1..Len(df.rows) |-> [c \in Range(cols) |-> df.rows[i][c]]]]

\* pd.read_csv(path, encoding=enc) raises UnicodeDecodeError: the bytes are not
\* text of that encoding.  A cp932 file is not valid utf-8; a file that is
\* neither decodes with none of the two.
UnicodeDecodeError(f, enc) == f.encoding # enc

\* pd.read_csv finds no table in the file (no header line).
ParserError(f) == f.header = <<>>

\* read_csv raises: both encodings fail, or the text is no table.
read_csv_raises(f) ==
    \/ UnicodeDecodeError(f, "utf-8-sig") /\ UnicodeDecodeError(f, "cp932")
    \/ ParserError(f)

\* read_csv when it raises nothing, with every column kept whatever the header.
read_csv_always_select(f) ==
    LET df == [columns |-> f.header, rows |-> f.rows]
        existing == SelectSeq(CSV_COLUMNS, LAMBDA c : c \in Range(df.columns))
    IN  Select(df, existing)

\* read_csv when it raises nothing.
read_csv(f) ==
    LET df == [columns |-> f.header, rows |-> f.rows]
        existing == SelectSeq(CSV_COLUMNS, LAMBDA c : c \in Range(df.columns))
    IN  IF existing # <<>> THEN Select(df, existing) ELSE df

\* sorted(...) of list_csv_files: the names of the directory in ascending order.
RECURSIVE sorted(_)
sorted(names) ==
    IF names = {} THEN <<>>
    ELSE LET least == CHOOSE n \in names : \A k \in names : n <= k
         IN  <<least>> \o sorted(names \ {least})

\* list_csv_files: the directory d maps file names to files.
list_csv_files(d) == sorted(DOMAIN d)

\* The columns of the frames in order of first appearance.
RECURSIVE UnionColumns(_)
UnionColumns(fs) ==
    IF fs = <<>> THEN <<>>
    ELSE LET before == UnionColumns(SubSeq(fs, 1, Len(fs) - 1))
         IN  before \o SelectSeq(fs[Len(fs)].columns, LAMBDA c : c \notin Range(before))

\* pd.concat(frames, ignore_index=True): the rows of the frames one frame after
\* the other, each widened to the union of the columns with missing cells.
RECURSIVE ConcatRows(_, _)
ConcatRows(fs, cols) ==
    IF fs = <<>> THEN <<>>
    ELSE [i \in 1..Len(fs[1].rows) |->
            [c \in Range(cols) |->
                IF c \in Range(fs[1].columns) THEN fs[1].rows[i][c] ELSE NaN]]
         \o ConcatRows(Tail(fs), cols)

concat(fs) == [columns |-> UnionColumns(fs), rows |-> ConcatRows(fs, UnionColumns(fs))]

\* ----------------------------------------------------------- _coerce_types

\* The numbers the cells of the model spell out.
NumericValue ==
    ("-2" :> -2) @@ ("-1" :> -1) @@ ("0" :> 0) @@ ("1" :> 1) @@ ("2" :> 2)
    @@ ("3" :> 3)

\* pd.to_numeric(cell, errors="coerce"): <<n>>, or <<>> (NaN) for a cell that
\* is missing or spells no number.
to_numeric(cell) == IF cell \in DOMAIN NumericValue THEN <<NumericValue[cell]>> ELSE <<>>

\* fillna(d) of one value.
fillna(v, d) == IF v = <<>> THEN d ELSE v[1]

\* pandas' NaT, and the dates the cells of the model spell out.
NaT == [y |-> 0, m |-> 0, d |-> 0]

DateValue ==
    ("2024/01/15" :> [y |-> 2024, m |-> 1, d |-> 15])
    @@ ("2023/12/15" :> [y |-> 2023, m |-> 12, d |-> 15])
    @@ ("2023/01/15" :> [y |-> 2023, m |-> 1, d |-> 15])

\* pd.to_datetime(cell, errors="coerce").
to_datetime(cell) == IF cell \in DOMAIN DateValue THEN DateValue[cell] ELSE NaT

\* A flag cell coerced with unparsable and missing values taken as 1.
coerce_flag_fill_one(cell) == fillna(to_numeric(cell), 1)

\* pd.to_numeric(...).fillna(0).astype(int) of a flag cell (the numbers of the
\* model are whole, astype(int) leaves them as they are).
coerce_flag(cell) == fillna(to_numeric(cell), 0)

\* pd.to_numeric(...).fillna(0) of an amount cell.
coerce_amount(cell) == fillna(to_numeric(cell), 0)

_coerce_types(df) ==
    [columns |-> df.columns,
     rows    |-> [i \in 1..Len(df.rows) |->
                    [c \in Range(df.columns) |->
                        IF c \in {"included_in_calc", "is_transfer"}
                            THEN coerce_flag(df.rows[i][c])
                        ELSE IF c = "amount" THEN coerce_amount(df.rows[i][c])
                        ELSE IF c = "date" THEN to_datetime(df.rows[i][c])
                        ELSE df.rows[i][c]]]]

\* ------------------------------------------------------------ summarize_df

\* dt.strftime("%Y-%m") of one date: NaN for NaT.
strftime_Ym(d) == IF d = NaT THEN <<NaN>> ELSE FormatYearMonth(d.y, d.m)

\* strftime("%Y-%m-%d") of one date.
strftime_Ymd(d) == FormatYearMonth(d.y, d.m) \o <<"-">> \o zfill(str(d.d), 2)

\* filter_month comparing the month number alone.
filter_month_any_year(df, mon) ==
    IF "date" \notin Range(df.columns) THEN EmptyFrame(df.columns)
    ELSE [columns |-> df.columns,
          rows    |-> SelectSeq(df.rows, LAMBDA r :
                          /\ r["date"] # NaT
                          /\ zfill(str(r["date"].m), 2) = SubSeq(mon, 6, 7))]

filter_month(df, mon) ==
    IF "date" \notin Range(df.columns) THEN EmptyFrame(df.columns)
    ELSE [columns |-> df.columns,
          rows    |-> SelectSeq(df.rows, LAMBDA r : strftime_Ym(r["date"]) = mon)]

RECURSIVE sum(_)
sum(xs) == IF xs = <<>> THEN 0 ELSE xs[1] + sum(Tail(xs))

\* sort_values: the orders of the keys of `key` in which the values never
\* decrease.  pandas' default sort is not stable: equal values come in any order.
RECURSIVE sort_values(_, _)
sort_values(S, key) ==
    IF S = {} THEN {<<>>}
    ELSE UNION { { <<i>> \o rest : rest \in sort_values(S \ {i}, key) } :
                 i \in {i \in S : \A j \in S : key[i] <= key[j]} }

\* row.get(c): None when the row has no such column.
NoneAtom == "<None>"
get(row, c) == IF c \in DOMAIN row THEN row[c] ELSE NoneAtom

\* head(5) of the rows sorted by amount.
TopN == 5

ZeroSummary(mon) ==
    [month |-> mon, rows_total |-> 0, rows_used |-> 0, total_income |-> 0,
     total_expense |-> 0, net |-> 0, by_category |-> <<>>, top_expenses |-> <<>>]

\* The rows summarize_df keeps: coerced, marked included_in_calc == 1 when the
\* table has that column, and dated in the month.
included_rows(df) ==
    IF "included_in_calc" \in Range(df.columns)
    THEN [columns |-> df.columns,
          rows    |-> SelectSeq(df.rows, LAMBDA r : r["included_in_calc"] = 1)]
    ELSE df

kept_rows(df, mon) == filter_month(included_rows(_coerce_types(df)), mon)

\* The amounts of the kept rows: an empty Series when the table has no amount column.
amounts_of(df) ==
    IF "amount" \in Range(df.columns)
    THEN [i \in 1..Len(df.rows) |-> df.rows[i]["amount"]]
    ELSE <<>>

total_income_of(amounts) == sum(SelectSeq(amounts, LAMBDA a : a > 0))

\* total_expense without the sign turned.
total_expense_signed(amounts) == sum(SelectSeq(amounts, LAMBDA a : a < 0))

total_expense_of(amounts) == -sum(SelectSeq(amounts, LAMBDA a : a < 0))

\* groupby("major_category")["amount"].sum(): the groups are the categories
\* that are not missing (groupby drops the rows whose key is NaN), each with
\* the sum of its rows' amounts.
groupby_sum(df) ==
    LET keys == {df.rows[i]["major_category"] : i \in 1..Len(df.rows)} \ {NaN}
    IN  [k \in keys |->
            sum([i \in 1..Len(SelectSeq(df.rows, LAMBDA r : r["major_category"] = k)) |->
                    SelectSeq(df.rows, LAMBDA r : r["major_category"] = k)[i]["amount"]])]

\* by_category with every kept row counted, the rows of a table without the
\* category column under "(unknown)".
by_category_unknown_bucket(df) ==
    IF "major_category" \in Range(df.columns) /\ "amount" \in Range(df.columns)
    THEN LET grp == groupby_sum(df)
         IN  { [i \in 1..Len(order) |->
                   [category |-> IF order[i] # NaN THEN order[i] ELSE "(unknown)",
                    total    |-> grp[order[i]]]] :
               order \in sort_values(DOMAIN grp, grp) }
    ELSE IF "amount" \in Range(df.columns)
    THEN { << [category |-> "(unknown)", total |-> sum(amounts_of(df))] >> }
    ELSE { <<>> }

\* The by_category lists summarize_df can build from the kept rows.
by_category_of(df) ==
    IF "major_category" \in Range(df.columns) /\ "amount" \in Range(df.columns)
    THEN LET grp == groupby_sum(df)
         IN  { [i \in 1..Len(order) |->
                   [category |-> IF order[i] # NaN THEN order[i] ELSE "(unknown)",
                    total    |-> grp[order[i]]]] :
               order \in sort_values(DOMAIN grp, grp) }
    ELSE { <<>> }

\* One entry of top_expenses.
expense_entry(row) ==
    [date        |-> IF get(row, "date") # NaT THEN strftime_Ymd(row["date"]) ELSE None,
     title       |-> get(row, "description"),
     amount      |-> row["amount"],
     category    |-> get(row, "major_category"),
     subcategory |-> get(row, "minor_category")]

\* The top_expenses lists summarize_df can build from the kept rows.
top_expenses_of(df) ==
    IF "amount" \in Range(df.columns)
    THEN { [i \in 1..(IF Len(order) < TopN THEN Len(order) ELSE TopN) |->
               expense_entry(df.rows[order[i]])] :
           order \in sort_values(1..Len(df.rows), amounts_of(df)) }
    ELSE { <<>> }

\* summarize_df(df, month): the summaries it can return (one, but for the order
\* of equal amounts and equal category totals).
summarize_df(df, mon) ==
    IF df.rows = <<>> \/ df.columns = <<>> THEN { ZeroSummary(mon) }
    ELSE LET kept    == kept_rows(df, mon)
             amounts == amounts_of(kept)
         IN  IF Len(kept.rows) = 0 THEN { ZeroSummary(mon) }
             ELSE { [month         |-> mon,
                     rows_total    |-> Len(kept.rows),
                     rows_used     |-> Len(kept.rows),
                     total_income  |-> total_income_of(amounts),
                     total_expense |-> total_expense_of(amounts),
                     net           |-> sum(amounts),
                     by_category   |-> bc,
                     top_expenses  |-> te] :
                    bc \in by_category_of(kept), te \in top_expenses_of(kept) }

\* ------------------------------------------------------------------ inputs

\* The columns summarize_df reads.
SummaryColumns ==
    {"included_in_calc", "date", "description", "amount", "major_category",
     "minor_category"}

\* The cells a column of a /summarize file holds: numbers, text that is no
\* number, missing cells; dates of one month, of the month before it across
\* the year's end, of the same month a year earlier, and text that is no date.
CellValues ==
    [c \in SummaryColumns |->
        CASE c = "included_in_calc" -> {"1", "0", "2", "x", NaN}
          [] c = "date"             -> {"2024/01/15", "2023/12/15", "2023/01/15", "x"}
          [] c = "description"      -> {"lunch", "misc"}
          [] c = "amount"           -> {"-1", "-2", "0", "1", "x"}
          [] c = "major_category"   -> {"food", "rent", NaN}
          [] c = "minor_category"   -> {"eating_out"}]

\* An included expense of January 2024.
BaseRow ==
    [c \in SummaryColumns |->
        CASE c = "included_in_calc" -> "1"
          [] c = "date"             -> "2024/01/15"
          [] c = "description"      -> "lunch"
          [] c = "amount"           -> "-1"
          [] c = "major_category"   -> "food"
          [] c = "minor_category"   -> "eating_out"]

\* The rows of the model: BaseRow, and BaseRow with one cell changed.
RowPool ==
    {BaseRow} \cup
    { [BaseRow EXCEPT ![cv[1]] = cv[2]] :
        cv \in UNION { {<<c, v>> : v \in CellValues[c]} : c \in SummaryColumns } }

\* The rows a file with header h can hold.
RowsFor(h) == { [c \in Range(h) |-> r[c]] : r \in RowPool }

\* The headers of the /summarize files: the summary columns the file has, in
\* canonical order.
SummaryHeaders ==
    { SelectSeq(CSV_COLUMNS, LAMBDA c : c \in S) : S \in (SUBSET SummaryColumns) \ {{}} }

\* The months a /summarize request names (validate_month lets them through).
Months == { FormatYearMonth(2024, 1), FormatYearMonth(2023, 12) }

\* The column names of a /read_csv file: the canonical ones and two others.
HeaderNames == Range(CSV_COLUMNS) \cup {"balance", "note"}

\* Line i of a file with header h: each cell names its column and its line.
Line(h, i) == [c \in Range(h) |-> c \o "#" \o ToString(i)]

\* The files of the directory: text in one of the two encodings read_csv tries
\* with one of four headers and some lines, an empty file, and a file that is
\* text of neither encoding.
DirHeaders == { <<"date">>, <<"note">>, <<"date", "note">>, <<"note", "date">> }

DirFiles ==
    { [encoding |-> e, header |-> h, rows |-> [i \in 1..n |-> Line(h, i)]] :
        e \in {"utf-8-sig", "cp932"}, h \in DirHeaders, n \in 0..MaxLines }
    \cup { [encoding |-> e, header |-> <<>>, rows |-> <<>>] : e \in {"utf-8-sig", "binary"} }

\* ------------------------------------------------------------ the requests

NoFile == [encoding |-> "utf-8-sig", header |-> <<>>, rows |-> <<>>]

Init ==
    /\ text = <<>>
    /\ resolved = None
    /\ dir = <<>>
    /\ listing = <<>>
    /\ cursor = 0
    /\ frames = <<>>
    /\ loaded = EmptyFrame(<<>>)
    /\ file = NoFile
    /\ preview = EmptyFrame(<<>>)
    /\ month = None
    /\ summary = ZeroSummary(None)
    /\ phase = "idle"

\* -- /slack/command: the month of the text

\* The user types one more token of the slash command's text.
Type(tok) ==
    /\ phase \in {"idle", "typing"}
    /\ Len(text) < MaxTokens
    /\ text' = Append(text, tok)
    /\ phase' = "typing"
    /\ UNCHANGED <<resolved, dir, listing, cursor, frames, loaded, file, preview, month, summary>>

\* slack_command resolves the month of the text at the time `now`.
Resolve(now) ==
    /\ phase \in {"idle", "typing"}
    /\ resolved' = parse_month_from_text(Flatten(text), now)
    /\ phase' = "resolved"
    /\ UNCHANGED <<text, dir, listing, cursor, frames, loaded, file, preview, month, summary>>

NextMonth ==
    \/ \E tok \in Tokens : Type(tok)
    \/ \E now \in Nows : Resolve(now)

SpecMonth == Init /\ [][NextMonth]_vars

\* -- /summarize with a filename: read_csv, then summarize_df

\* A CSV file with header h appears.
OpenCsv(h) ==
    /\ phase = "idle"
    /\ file' = [encoding |-> "utf-8-sig", header |-> h, rows |-> <<>>]
    /\ phase' = "csv"
    /\ UNCHANGED <<text, resolved, dir, listing, cursor, frames, loaded, preview, month, summary>>

\* The file gets one more row.
AddRow(r) ==
    /\ phase = "csv"
    /\ Len(file.rows) < MaxRows
    /\ file' = [file EXCEPT !.rows = Append(@, r)]
    /\ UNCHANGED <<text, resolved, dir, listing, cursor, frames, loaded, preview, month, summary, phase>>

\* summarize_endpoint for the file and the month mon.
Summarize(mon) ==
    /\ phase = "csv"
    /\ ~read_csv_raises(file)
    /\ month' = mon
    /\ summary' \in summarize_df(read_csv(file), mon)
    /\ phase' = "summarized"
    /\ UNCHANGED <<text, resolved, dir, listing, cursor, frames, loaded, file, preview>>

NextSummarize ==
    \/ \E h \in SummaryHeaders : OpenCsv(h)
    \/ \E r \in RowsFor(file.header) : AddRow(r)
    \/ \E mon \in Months : Summarize(mon)

SpecSummarize == Init /\ [][NextSummarize]_vars

\* -- /read_csv with a filename: read_csv

\* The header of the file gets one more column.
AddColumn(c) ==
    /\ phase \in {"idle", "header"}
    /\ Len(file.header) < MaxHeader
    /\ c \notin Range(file.header)
    /\ file' = [file EXCEPT !.header = Append(@, c)]
    /\ phase' = "header"
    /\ UNCHANGED <<text, resolved, dir, listing, cursor, frames, loaded, preview, month, summary>>

\* The file gets one more line.
AddLine ==
    /\ phase \in {"header", "lines"}
    /\ Len(file.rows) < MaxLines
    /\ file' = [file EXCEPT !.rows = Append(@, Line(file.header, Len(file.rows) + 1))]
    /\ phase' = "lines"
    /\ UNCHANGED <<text, resolved, dir, listing, cursor, frames, loaded, preview, month, summary>>

\* read_csv_endpoint reads the file.
Preview ==
    /\ phase \in {"header", "lines"}
    /\ ~read_csv_raises(file)
    /\ preview' = read_csv(file)
    /\ phase' = "previewed"
    /\ UNCHANGED <<text, resolved, dir, listing, cursor, frames, loaded, file, month, summary>>

NextRead ==
    \/ \E c \in HeaderNames : AddColumn(c)
    \/ AddLine
    \/ Preview

SpecRead == Init /\ [][NextRead]_vars

\* -- load_all_csvs

\* A file named n appears in the directory.
PutFile(n, f) ==
    /\ phase \in {"idle", "dir"}
    /\ n \notin DOMAIN dir
    /\ dir' = [k \in DOMAIN dir \cup {n} |-> IF k = n THEN f ELSE dir[k]]
    /\ phase' = "dir"
    /\ UNCHANGED <<text, resolved, listing, cursor, frames, loaded, file, preview, month, summary>>

\* load_all_csvs starts: it lists the directory.
LoadStart ==
    /\ phase \in {"idle", "dir"}
    /\ listing' = list_csv_files(dir)
    /\ cursor' = 0
    /\ frames' = <<>>
    /\ phase' = "loading"
    /\ UNCHANGED <<text, resolved, dir, loaded, file, preview, month, summary>>

\* One turn of the loop with no try/except around read_csv.
LoadStepNoExcept ==
    /\ phase = "loading"
    /\ cursor < Len(listing)
    /\ IF read_csv_raises(dir[listing[cursor + 1]])
       THEN phase' = "raised" /\ UNCHANGED frames
       ELSE phase' = phase /\ frames' = Append(frames, read_csv(dir[listing[cursor + 1]]))
    /\ cursor' = cursor + 1
    /\ UNCHANGED <<text, resolved, dir, listing, loaded, file, preview, month, summary>>

\* One turn of the loop: the next file's frame is kept, or the file is skipped
\* with a warning when read_csv raises.
LoadStep ==
    /\ phase = "loading"
    /\ cursor < Len(listing)
    /\ frames' = IF read_csv_raises(dir[listing[cursor + 1]])
                 THEN frames
                 ELSE Append(frames, read_csv(dir[listing[cursor + 1]]))
    /\ cursor' = cursor + 1
    /\ UNCHANGED <<text, resolved, dir, listing, loaded, file, preview, month, summary, phase>>

\* load_all_csvs returns.
LoadReturn ==
    /\ phase = "loading"
    /\ cursor = Len(listing)
    /\ loaded' = IF frames = <<>> THEN EmptyFrame(CSV_COLUMNS) ELSE concat(frames)
    /\ phase' = "loaded"
    /\ UNCHANGED <<text, resolved, dir, listing, cursor, frames, file, preview, month, summary>>

NextLoad ==
    \/ \E n \in 1..MaxFiles, f \in DirFiles : PutFile(n, f)
    \/ LoadStart
    \/ LoadStep
    \/ LoadReturn

SpecLoad == Init /\ [][NextLoad]_vars

\* ------------------------------------------------------------- the claims

\* -- the month resolver

\* C4: an explicit year-month text (a 4-digit year, an optional '-' or '/', a
\* month from 1 to 12 in one or two digits) resolves to that year and month.
ExplicitYearMonthResolves ==
    phase = "resolved" =>
        \A mm \in 1..12 : \A sep \in {<<>>, <<"-">>, <<"/">>} :
            \A written \in {str(mm), zfill(str(mm), 2)} :
                Flatten(text) = <<"2", "0", "2", "3">> \o sep \o written
                    => resolved = <<"2", "0", "2", "3", "-">> \o zfill(str(mm), 2)

\* C9: what parse_month_from_text returns is None or a month in the canonical
\* form MONTH_RE accepts.
ResolvedIsCanonical ==
    phase = "resolved" => (resolved = None \/ MONTH_RE(resolved))

\* -- read_csv

Position(c) == CHOOSE k \in 1..Len(CSV_COLUMNS) : CSV_COLUMNS[k] = c

CanonicalOf(h) == Range(h) \cap Range(CSV_COLUMNS)

InCanonicalOrder(cols) ==
    \A i, j \in 1..Len(cols) : i < j => Position(cols[i]) < Position(cols[j])

\* The cells of the columns `cols` are those of the file, line by line.
SameCells(df, f, cols) ==
    /\ Len(df.rows) = Len(f.rows)
    /\ \A i \in 1..Len(f.rows) : \A c \in cols : df.rows[i][c] = f.rows[i][c]

\* C10 as stated: the table read_csv returns has exactly the canonical columns
\* of the header, in canonical order, whatever the header.
ReadCsvKeepsCanonicalOnly ==
    phase = "previewed" =>
        /\ Range(preview.columns) = CanonicalOf(file.header)
        /\ InCanonicalOrder(preview.columns)

\* C10 amended: when the header has a canonical column, the table has exactly
\* the canonical columns of the header, in canonical order, with their cells;
\* when it has none, the table is the file as it is, every column kept.
ReadCsvColumns ==
    phase = "previewed" =>
        IF CanonicalOf(file.header) # {}
        THEN /\ Range(preview.columns) = CanonicalOf(file.header)
             /\ Len(preview.columns) = Cardinality(CanonicalOf(file.header))
             /\ InCanonicalOrder(preview.columns)
             /\ SameCells(preview, file, CanonicalOf(file.header))
        ELSE /\ preview.columns = file.header
             /\ preview.rows = file.rows

\* A file with lines whose header mixes two canonical columns, out of
\* canonical order, with another column has been read.
ReadCsvColumnsWitness ==
    /\ phase = "previewed"
    /\ Len(file.rows) >= 1
    /\ Range(file.header) # CanonicalOf(file.header)
    /\ Cardinality(CanonicalOf(file.header)) = 2
    /\ ~InCanonicalOrder(SelectSeq(file.header, LAMBDA c : c \in Range(CSV_COLUMNS)))

\* -- load_all_csvs

\* read_csv can read the file: text of one of the two encodings, with a header.
Parses(f) == f.encoding \in {"utf-8-sig", "cp932"} /\ f.header # <<>>

\* The columns read_csv keeps of a file.
KeptColumns(f) ==
    IF CanonicalOf(f.header) # {} THEN CanonicalOf(f.header) ELSE Range(f.header)

\* The rows of the files named 1..n that parse, in name order and file order,
\* as rows of a table with the columns `cols`.
RECURSIVE ParsedRowsUpTo(_, _)
ParsedRowsUpTo(n, cols) ==
    IF n = 0 THEN <<>>
    ELSE ParsedRowsUpTo(n - 1, cols)
         \o (IF n \in DOMAIN dir /\ Parses(dir[n])
             THEN [i \in 1..Len(dir[n].rows) |->
                      [c \in cols |->
                          IF c \in KeptColumns(dir[n]) THEN dir[n].rows[i][c] ELSE NaN]]
             ELSE <<>>)

Ledger == read_csv(file)

\* The file with the amount, category and description of its row i changed.
EditRow(f, i, a, cat, desc) ==
    [f EXCEPT !.rows[i] =
        [c \in DOMAIN @ |->
            IF c = "amount" THEN a
            ELSE IF c = "major_category" THEN cat
            ELSE IF c = "description" THEN desc
            ELSE @[c]]]

\* The cells a row is changed to.
AltAmounts == {"-2", "3", "x"}
AltCategories == {"rent", NaN}
AltDescriptions == {"lunch", "misc"}

\* The flag cells that mean false: 0, unparsable, missing.
FalseFlags == {"0", "x", NaN}

\* Changing the amount, category and description of any of the rows `rows` of
\* the file changes nothing of what summarize_df can return, which includes
\* what it returned.
EditsChangeNothing(rows) ==
    LET original == summarize_df(Ledger, month)
    IN  /\ summary \in original
        /\ \A i \in rows :
             \A a \in AltAmounts, cat \in AltCategories, desc \in AltDescriptions :
                summarize_df(read_csv(EditRow(file, i, a, cat, desc)), month) = original

\* C1 as stated: a row whose included_in_calc is false (0, unparsable or
\* missing, a file without the column included) contributes nothing to the
\* summary: changing its amount, category or description changes nothing.
ExcludedRowsNeverContribute ==
    phase = "summarized" =>
        EditsChangeNothing(
            { i \in 1..Len(file.rows) :
                \/ "included_in_calc" \notin Range(file.header)
                \/ file.rows[i]["included_in_calc"] \in FalseFlags })

\* C1 amended: in a table that has the included_in_calc column, a row whose
\* cell of that column is 0, unparsable or missing contributes nothing to the
\* summary.
ExcludedRowsOfFlaggedTable ==
    (phase = "summarized" /\ "included_in_calc" \in Range(file.header)) =>
        EditsChangeNothing(
            { i \in 1..Len(file.rows) : file.rows[i]["included_in_calc"] \in FalseFlags })

\* A summary of one row was made of a file of two rows, the other row's flag
\* being unparsable or missing.
ExcludedRowsWitness ==
    /\ phase = "summarized"
    /\ "included_in_calc" \in Range(file.header)
    /\ "amount" \in Range(file.header)
    /\ Len(file.rows) = 2
    /\ file.rows[2]["included_in_calc"] \in {"x", NaN}
    /\ summary.rows_used = 1

RECURSIVE SumTotals(_)
SumTotals(entries) ==
    IF entries = <<>> THEN 0 ELSE entries[1].total + SumTotals(Tail(entries))

\* C2: the totals of by_category sum to net, the rows whose major_category is
\* missing counted under "(unknown)" (stated for the tables that have the
\* major_category column, where a cell of it can be missing).
ByCategorySumsToNet ==
    (phase = "summarized" /\ "major_category" \in Range(file.header)) =>
        /\ SumTotals(summary.by_category) = summary.net
        /\ \A i, j \in 1..Len(summary.by_category) :
               i # j => summary.by_category[i].category # summary.by_category[j].category

\* The number of kept rows with a negative amount.
Expenses ==
    Len(SelectSeq(amounts_of(kept_rows(Ledger, month)), LAMBDA a : a < 0))

\* C3: top_expenses has min(5, number of kept rows with amount < 0) entries,
\* their amounts never decreasing.
TopExpensesAreTheExpenses ==
    phase = "summarized" =>
        /\ Len(summary.top_expenses) = IF Expenses < 5 THEN Expenses ELSE 5
        /\ \A i, j \in 1..Len(summary.top_expenses) :
               i < j => summary.top_expenses[i].amount <= summary.top_expenses[j].amount

\* The year and month the requested month token spells.
Requested == <<int(SubSeq(month, 1, 4)), int(SubSeq(month, 6, 7))>>

\* The row's date cell spells a date of the requested month.
DatedInRequestedMonth(row) ==
    /\ "date" \in DOMAIN row
    /\ row["date"] \in DOMAIN DateValue
    /\ <<DateValue[row["date"]].y, DateValue[row["date"]].m>> = Requested

\* C6: the summary of a month is the summary of the rows dated in that month:
\* the rows dated in any other month, the adjacent ones included, and the rows
\* whose date is unparsable contribute nothing.
MonthFilterIsExact ==
    phase = "summarized" =>
        LET only == summarize_df([columns |-> Ledger.columns,
                                  rows    |-> SelectSeq(Ledger.rows, DatedInRequestedMonth)],
                                 month)
        IN  /\ summary \in only
            /\ only = summarize_df(Ledger, month)

\* A summary of one row was made of two included rows, the other row dated in
\* the month before the requested one or unparsable.
MonthFilterWitness ==
    /\ phase = "summarized"
    /\ {"date", "amount"} \subseteq Range(file.header)
    /\ Len(file.rows) = 2
    /\ file.rows[1]["date"] \in {"2023/12/15", "x"}
    /\ month = <<"2", "0", "2", "4", "-", "0", "1">>
    /\ summary.rows_used = 1

\* C7: total_income - total_expense = net.
IncomeMinusExpenseIsNet ==
    phase = "summarized" => summary.total_income - summary.total_expense = summary.net

\* A summary was made of an expense and a row whose amount is unparsable.
IncomeMinusExpenseWitness ==
    /\ phase = "summarized"
    /\ "amount" \in Range(file.header)
    /\ Len(file.rows) = 2
    /\ file.rows[1]["amount"] = "x"
    /\ summary.rows_used = 2
    /\ summary.total_expense > 0

SummaryKeys ==
    {"month", "rows_total", "rows_used", "total_income", "total_expense", "net",
     "by_category", "top_expenses"}

====
